---- MODULE Spec2Model ----
(***************************************************************************)
(* Portal Gun LED controller (Portal_Gun_v3_1.ino, version 3.1).           *)
(*                                                                         *)
(* The sketch is a single-threaded polling loop.  A step of the program    *)
(* counter pc is a group of statements that ends at a blocking delay(), at *)
(* an analogWrite or at a call or return; the two buttons are the          *)
(* environment.  Time passes only inside delay() (and in the for(;;) that  *)
(* ends a failed setup), so the button lines change level there.  The code *)
(* uses millis() only in the forms "millis() - lastX" and                  *)
(* "lastX = millis()", so each timestamp is kept as the elapsed time since *)
(* it was taken, saturated at or just above the threshold it is compared   *)
(* with.  The file also holds the older version 3.0 of the sketch, whose   *)
(* loop, shootPortal and fadeTransition behave alike; 3.1 is modelled.     *)
(***************************************************************************)
EXTENDS Integers, Sequences, FiniteSets, TLC

\* ------------------------------------------------------------------ bounds
\* The environment stops pressing the shoot button once this many portals
\* have been fired (the counter itself is a 16-bit int, see INT_MAX).
MaxFired == 2

\* The duty values fadeTransition is entered with are the multiples of this
\* stride in 0..255, together with dim-idle and full brightness.
DutyStride == 51

\* --------------------------------------------------------------- constants
BLUE_LED_PIN == 5
RED_LED_PIN == 6
DIM_BRIGHTNESS == 30
MAX_BRIGHTNESS == 255
FADE_STEP == 2
FADE_DELAY == 20
DEBOUNCE_DELAY == 50
BLINK_INTERVAL == 500
OLED_UPDATE_INTERVAL == 200
PULSE_DELAY == 15
PULSE_COUNT == 8
BRIGHTNESS_STEP == 20
SOUND_POWER_UP == 1
SOUND_BLUE_PORTAL == 2
SOUND_RED_PORTAL == 3
SOUND_MODE_SWITCH == 4
SOUND_POWER_DOWN == 5
LOOP_DELAY == 10

\* int is 16 bits wide on the AVR target of the sketch.
INT_MAX == 2^15 - 1
INT_MIN == -(2^15)

BLUE_MODE == "BLUE"
RED_MODE == "RED"
PortalMode == {BLUE_MODE, RED_MODE}

HIGH == TRUE
LOW == FALSE

Buttons == {"toggle", "shoot"}
LedPins == {BLUE_LED_PIN, RED_LED_PIN}

Min(a, b) == IF a < b THEN a ELSE b

VARIABLES
  pc,                 \* position of the single thread of control
  retPc,              \* where fadeTransition returns to
  currentMode, isShooting, audioEnabled, totalPortalsFired,
  sinceButtonPress,   \* millis() - lastButtonPress, saturated
  sinceBlink,         \* millis() - lastBlinkTime, saturated
  sinceOLEDUpdate,    \* millis() - lastOLEDUpdate, saturated
  lastToggleState, lastShootState,
  togglePressed, shootPressed, gateOpen,     \* locals of handleButtons
  duty,               \* PWM duty of the two LED channels
  onboardLEDState, onboardPin,
  fadeFromPin, fadeToPin, fadeStep,          \* locals of fadeTransition
  activePin, pulse, brightness,              \* locals of the shoot effect
  screen,             \* what the OLED shows
  audioOut,           \* last track requested from the player, 0 if none
  level,              \* environment: level of each button line
  displayOk, audioOk, \* environment: do the collaborators initialise
  \* history variables, read by no step of the program
  pressNew, pressBorn, sampKind, sampEvents, sampBorn,
  modeAtShoot, firedAtShoot, didShoot, didToggle, modeAtToggle,
  prevToggleMode,
  cueCalls, cuePlays, shootLedWritten,
  scen, acceptGap, buttonsRead, ledWritten, playRequested,
  shotsCompleted,     \* shootPortal calls that have cleared isShooting
  missed,             \* per button: a press begun and released unsampled
                      \* inside a fade or shoot sequence
  actionsOdd          \* is the number of toggles and completed shoots odd

ctl == <<pc, retPc>>
core == <<currentMode, isShooting, audioEnabled, totalPortalsFired>>
timers == <<sinceButtonPress, sinceBlink, sinceOLEDUpdate>>
btn == <<lastToggleState, lastShootState, togglePressed, shootPressed, gateOpen>>
leds == <<duty, ledWritten, shootLedWritten>>
onboard == <<onboardLEDState, onboardPin>>
fade == <<fadeFromPin, fadeToPin, fadeStep>>
fx == <<activePin, pulse, brightness>>
audio == <<audioOut, playRequested, cueCalls, cuePlays>>
env == <<level, displayOk, audioOk>>
hPress == <<pressNew, pressBorn, sampKind, sampEvents, sampBorn>>
hShoot == <<modeAtShoot, firedAtShoot, didShoot, didToggle, modeAtToggle,
           prevToggleMode>>
hAcc == <<scen, acceptGap>>
hSeq == <<shotsCompleted, missed, actionsOdd>>

vars == <<ctl, core, timers, btn, leds, onboard, fade, fx, screen, audio, env,
          hPress, hShoot, hAcc, hSeq, buttonsRead>>

\* ------------------------------------------------------------------- time
ButtonCap == DEBOUNCE_DELAY + 1
BlinkCap == BLINK_INTERVAL
OLEDCap == OLED_UPDATE_INTERVAL

\* delay(ms) entered with the elapsed times b, k, o: each grows by ms.
DelayFrom(b, k, o, ms) ==
  /\ sinceButtonPress' = Min(b + ms, ButtonCap)
  /\ sinceBlink' = Min(k + ms, BlinkCap)
  /\ sinceOLEDUpdate' = Min(o + ms, OLEDCap)

Delay(ms) == DelayFrom(sinceButtonPress, sinceBlink, sinceOLEDUpdate, ms)

\* ---------------------------------------------------------------- display
NoScreen == [kind |-> "blank", mode |-> "", fired |-> 0, audio |-> FALSE]
Message(k, m) == [kind |-> k, mode |-> m, fired |-> 0, audio |-> FALSE]
StatusScreen(m, n, a) == [kind |-> "status", mode |-> m, fired |-> n, audio |-> a]

\* Faulty variant: nothing is rendered.
updateMainDisplaySkipped(shooting, shown, m, n, a) == shown
\* updateMainDisplay(): the status screen, unless a shoot is in progress.
updateMainDisplay(shooting, shown, m, n, a) ==
  IF shooting THEN shown ELSE StatusScreen(m, n, a)

\* runStartupSequence(): the screen it leaves behind.
StartupScreen(a) == IF a THEN Message("symbols", "") ELSE Message("ready", "")
StartupTime(a) == 2000 + 800 + 1500 + (IF a THEN 2000 + 1200 ELSE 0)

\* ------------------------------------------------------------------ audio
\* playAudio(track): is a play request sent to the player.
\* Faulty variant: audioEnabled is not consulted.
playAudioAlways(enabled, track) == track >= 1 /\ track <= 5
playAudio(enabled, track) == enabled /\ track >= 1 /\ track <= 5

\* A playAudio(track) call made with the cue logs calls, plays.
PlayAudio(track, shooting, calls, plays) ==
  LET sent == playAudio(audioEnabled, track) IN
  /\ audioOut' = IF sent THEN track ELSE audioOut
  /\ playRequested' = (playRequested \/ sent)
  /\ cueCalls' = IF shooting THEN Append(calls, track) ELSE calls
  /\ cuePlays' = IF shooting /\ sent THEN Append(plays, track) ELSE plays

\* -------------------------------------------------------------------- LED
\* analogWrite(pin, value)
AnalogWrite(pin, value) ==
  /\ duty' = [duty EXCEPT ![pin] = value]
  /\ ledWritten' = TRUE
  /\ shootLedWritten' = (shootLedWritten \/ isShooting)

\* ------------------------------------------------------------------- Init
Init ==
  /\ pc = "setup"
  /\ retPc = "none"
  /\ currentMode = BLUE_MODE
  /\ isShooting = FALSE
  /\ audioEnabled = TRUE
  /\ totalPortalsFired = 0
  /\ sinceButtonPress = 0
  /\ sinceBlink = 0
  /\ sinceOLEDUpdate = 0
  /\ lastToggleState = HIGH
  /\ lastShootState = HIGH
  /\ togglePressed = FALSE
  /\ shootPressed = FALSE
  /\ gateOpen = FALSE
  /\ duty = [p \in LedPins |-> 0]
  /\ onboardLEDState = FALSE
  /\ onboardPin = LOW
  /\ fadeFromPin = BLUE_LED_PIN
  /\ fadeToPin = BLUE_LED_PIN
  /\ fadeStep = 0
  /\ activePin = BLUE_LED_PIN
  /\ pulse = 0
  /\ brightness = 0
  /\ screen = NoScreen
  /\ audioOut = 0
  /\ level = [b \in Buttons |-> HIGH]
  /\ displayOk \in BOOLEAN
  /\ audioOk \in BOOLEAN
  /\ pressNew = [b \in Buttons |-> FALSE]
  /\ pressBorn = [b \in Buttons |-> FALSE]
  /\ sampKind = [b \in Buttons |-> "none"]
  /\ sampEvents = [b \in Buttons |-> 0]
  /\ sampBorn = [b \in Buttons |-> FALSE]
  /\ modeAtShoot = BLUE_MODE
  /\ firedAtShoot = 0
  /\ didShoot = FALSE
  /\ didToggle = FALSE
  /\ modeAtToggle = BLUE_MODE
  /\ prevToggleMode = "none"
  /\ cueCalls = <<>>
  /\ cuePlays = <<>>
  /\ shootLedWritten = FALSE
  /\ scen = <<>>
  /\ acceptGap = ButtonCap
  /\ buttonsRead = FALSE
  /\ ledWritten = FALSE
  /\ playRequested = FALSE
  /\ shotsCompleted = 0
  /\ missed = [b \in Buttons |-> "no"]
  /\ actionsOdd = FALSE


\* ------------------------------------------------------------------ setup
ModePin(m) == IF m = BLUE_MODE THEN BLUE_LED_PIN ELSE RED_LED_PIN
OtherPin(p) == IF p = BLUE_LED_PIN THEN RED_LED_PIN ELSE BLUE_LED_PIN

\* setup(): display.begin() failing ends in for(;;).
\* Faulty variant: setup goes on after a failed display.begin().
AfterDisplayBeginNoHalt(ok) == "audioInit"
AfterDisplayBegin(ok) == IF ok THEN "audioInit" ELSE "halted"

SetupDisplay ==
  /\ pc = "setup"
  /\ pc' = AfterDisplayBegin(displayOk)
  /\ UNCHANGED <<retPc, core, timers, btn, leds, onboard, fade, fx, screen,
                 audio, env, hPress, hShoot, hAcc, hSeq, buttonsRead>>

\* setup(): audioPlayer.begin(); on success volume, delay(1000), power-up sound.
SetupAudio ==
  /\ pc = "audioInit"
  /\ IF audioOk
       THEN /\ Delay(1000)
            /\ PlayAudio(SOUND_POWER_UP, FALSE, cueCalls, cuePlays)
            /\ UNCHANGED audioEnabled
       ELSE /\ audioEnabled' = FALSE
            /\ UNCHANGED <<timers, audio>>
  /\ pc' = "runStartupSequence"
  /\ UNCHANGED <<retPc, currentMode, isShooting, totalPortalsFired, btn, leds,
                 onboard, fade, fx, screen, env, hPress, hShoot, hAcc, hSeq,
                 buttonsRead>>

RunStartupSequence ==
  /\ pc = "runStartupSequence"
  /\ screen' = StartupScreen(audioEnabled)
  /\ Delay(StartupTime(audioEnabled))
  /\ pc' = "setIdleMode"
  /\ UNCHANGED <<retPc, core, btn, leds, onboard, fade, fx, audio, env,
                 hPress, hShoot, hAcc, hSeq, buttonsRead>>

\* setIdleMode(): the mode's channel to dim, then the other channel off.
SetIdleDim ==
  /\ pc = "setIdleMode"
  /\ AnalogWrite(ModePin(currentMode), DIM_BRIGHTNESS)
  /\ pc' = "setIdleOff"
  /\ UNCHANGED <<retPc, core, timers, btn, onboard, fade, fx, screen, audio,
                 env, hPress, hShoot, hAcc, hSeq, buttonsRead>>

SetIdleOff ==
  /\ pc = "setIdleOff"
  /\ AnalogWrite(OtherPin(ModePin(currentMode)), 0)
  /\ onboardPin' = IF currentMode = BLUE_MODE THEN HIGH ELSE onboardPin
  /\ pc' = "setupDisplay"
  /\ UNCHANGED <<retPc, core, timers, btn, onboardLEDState, fade, fx, screen,
                 audio, env, hPress, hShoot, hAcc, hSeq, buttonsRead>>

SetupRefresh ==
  /\ pc = "setupDisplay"
  /\ screen' = updateMainDisplay(isShooting, screen, currentMode,
                                 totalPortalsFired, audioEnabled)
  /\ pc' = "handleButtons"
  /\ UNCHANGED <<retPc, core, timers, btn, leds, onboard, fade, fx, audio,
                 env, hPress, hShoot, hAcc, hSeq, buttonsRead>>


\* ---------------------------------------------------------- handleButtons
LastState(b) == IF b = "toggle" THEN lastToggleState ELSE lastShootState

\* if (millis() - lastButtonPress > DEBOUNCE_DELAY)
DebounceElapsed(since) == since > DEBOUNCE_DELAY

\* pressed && lastState == HIGH
\* Faulty variant: level-triggered instead of edge-triggered.
FallingEdgeLevel(pressed, last) == pressed
FallingEdge(pressed, last) == pressed /\ last = HIGH

\* Observer of the scenario toggle, shoot, toggle from startup: the accepted
\* actions so far while they are a prefix of it, <<"off">> afterwards.
Scenario == <<"T", "S", "T">>
Record(a) ==
  IF scen # <<"off">> /\ Len(scen) < Len(Scenario) /\ Scenario[Len(scen) + 1] = a
    THEN Append(scen, a) ELSE <<"off">>
Bump(b) == [sampEvents EXCEPT ![b] = Min(@ + 1, 2)]

\* handleButtons(): both digitalRead calls and the debounce test.
HandleButtonsRead ==
  /\ pc = "handleButtons"
  /\ togglePressed' = (level["toggle"] = LOW)
  /\ shootPressed' = (level["shoot"] = LOW)
  /\ gateOpen' = DebounceElapsed(sinceButtonPress)
  /\ pc' = IF gateOpen' /\ FallingEdge(togglePressed', lastToggleState)
             THEN "togglePortalMode" ELSE "shootCheck"
  /\ buttonsRead' = TRUE
  /\ pressNew' = [b \in Buttons |-> IF level[b] = LOW THEN FALSE ELSE pressNew[b]]
  /\ sampKind' = [b \in Buttons |->
        IF level[b] = HIGH THEN "none"
        ELSE IF pressNew[b]
               THEN (IF gateOpen' /\ LastState(b) = HIGH THEN "hit" ELSE "miss")
               ELSE sampKind[b]]
  /\ sampEvents' = [b \in Buttons |->
        IF level[b] = HIGH \/ pressNew[b] THEN 0 ELSE sampEvents[b]]
  /\ sampBorn' = [b \in Buttons |->
        IF level[b] = HIGH THEN FALSE
        ELSE IF pressNew[b] THEN pressBorn[b] ELSE sampBorn[b]]
  /\ didShoot' = FALSE
  /\ didToggle' = FALSE
  /\ missed' = [b \in Buttons |-> IF missed[b] = "seq" THEN "poll" ELSE missed[b]]
  /\ UNCHANGED <<retPc, core, timers, lastToggleState, lastShootState, leds,
                 onboard, fade, fx, screen, audio, env, pressBorn,
                 modeAtShoot, firedAtShoot, modeAtToggle, prevToggleMode, hAcc,
                 shotsCompleted, actionsOdd>>

\* ------------------------------------------------------- togglePortalMode
\* Faulty variant: a toggle that always selects BLUE.
ToggleModeToBlue(m) == BLUE_MODE
\* Faulty variant: a toggle that always selects RED.
ToggleModeStuck(m) == RED_MODE
ToggleMode(m) == IF m = BLUE_MODE THEN RED_MODE ELSE BLUE_MODE

\* The onboard LED and blink timer on entering mode m, followed by delay(ms).
EnterMode(m, ms) ==
  /\ onboardPin' = HIGH
  /\ IF m = BLUE_MODE
       THEN /\ UNCHANGED onboardLEDState
            /\ Delay(ms)
       ELSE /\ onboardLEDState' = TRUE
            /\ DelayFrom(sinceButtonPress, 0, sinceOLEDUpdate, ms)

\* fadeTransition(fromPin, toPin) is entered, to return to ret.
CallFade(fromPin, toPin, ret) ==
  /\ fadeFromPin' = fromPin
  /\ fadeToPin' = toPin
  /\ fadeStep' = 0
  /\ retPc' = ret
  /\ pc' = IF 0 <= DIM_BRIGHTNESS THEN "fadeFrom" ELSE "fadeEndFrom"

ModeSwitchScreen(m) == Message("modeSwitch", m)

TogglePortalMode ==
  /\ pc = "togglePortalMode"
  /\ currentMode' = ToggleMode(currentMode)
  /\ PlayAudio(SOUND_MODE_SWITCH, isShooting, cueCalls, cuePlays)
  /\ EnterMode(currentMode', 1000)
  /\ screen' = ModeSwitchScreen(currentMode')
  /\ CallFade(ModePin(currentMode), ModePin(currentMode'), "toggleReturn")
  /\ sampEvents' = Bump("toggle")
  /\ scen' = Record("T")
  /\ acceptGap' = sinceButtonPress
  /\ didToggle' = TRUE
  /\ actionsOdd' = ~actionsOdd
  /\ modeAtToggle' = currentMode
  /\ UNCHANGED <<isShooting, audioEnabled, totalPortalsFired, btn, leds, fx,
                 env, pressNew, pressBorn, sampKind, sampBorn, modeAtShoot,
                 firedAtShoot, didShoot, prevToggleMode, buttonsRead,
                 shotsCompleted, missed>>

\* Faulty variant: the shoot test is an else branch of the toggle test.
ToggleReturnSkipShoot ==
  /\ pc = "toggleReturn"
  /\ screen' = updateMainDisplay(isShooting, screen, currentMode,
                                 totalPortalsFired, audioEnabled)
  /\ sinceButtonPress' = 0
  /\ pc' = "storeStates"
  /\ prevToggleMode' = currentMode
  /\ UNCHANGED <<retPc, core, sinceBlink, sinceOLEDUpdate, btn, leds, onboard,
                 fade, fx, audio, env, hPress, modeAtShoot, firedAtShoot,
                 didShoot, didToggle, modeAtToggle, hAcc, hSeq, buttonsRead>>

ToggleReturn ==
  /\ pc = "toggleReturn"
  /\ screen' = updateMainDisplay(isShooting, screen, currentMode,
                                 totalPortalsFired, audioEnabled)
  /\ sinceButtonPress' = 0
  /\ pc' = "shootCheck"
  /\ prevToggleMode' = currentMode
  /\ UNCHANGED <<retPc, core, sinceBlink, sinceOLEDUpdate, btn, leds, onboard,
                 fade, fx, audio, env, hPress, modeAtShoot, firedAtShoot,
                 didShoot, didToggle, modeAtToggle, hAcc, hSeq, buttonsRead>>

\* --------------------------------------------------------- fadeTransition
\* Faulty variant: the operands of the subtraction exchanged.
FadeDownSwapped(step) == step - DIM_BRIGHTNESS
\* Faulty variant: the from channel is not ramped down.
FadeDownStuck(step) == DIM_BRIGHTNESS
FadeDown(step) == DIM_BRIGHTNESS - step

FadeFrom ==
  /\ pc = "fadeFrom"
  /\ AnalogWrite(fadeFromPin, FadeDown(fadeStep))
  /\ pc' = "fadeTo"
  /\ UNCHANGED <<retPc, core, timers, btn, onboard, fade, fx, screen, audio,
                 env, hPress, hShoot, hAcc, hSeq, buttonsRead>>

\* Faulty variant: step is not advanced.
FadeToNoStep ==
  /\ pc = "fadeTo"
  /\ AnalogWrite(fadeToPin, fadeStep)
  /\ Delay(FADE_DELAY)
  /\ pc' = "fadeFrom"
  /\ UNCHANGED <<retPc, core, btn, onboard, fade, fx, screen, audio, env,
                 hPress, hShoot, hAcc, hSeq, buttonsRead>>

FadeTo ==
  /\ pc = "fadeTo"
  /\ AnalogWrite(fadeToPin, fadeStep)
  /\ Delay(FADE_DELAY)
  /\ fadeStep' = fadeStep + FADE_STEP
  /\ pc' = IF fadeStep' <= DIM_BRIGHTNESS THEN "fadeFrom" ELSE "fadeEndFrom"
  /\ UNCHANGED <<retPc, core, btn, onboard, fadeFromPin, fadeToPin, fx, screen,
                 audio, env, hPress, hShoot, hAcc, hSeq, buttonsRead>>

FadeEndFrom ==
  /\ pc = "fadeEndFrom"
  /\ AnalogWrite(fadeFromPin, 0)
  /\ pc' = "fadeEndTo"
  /\ UNCHANGED <<retPc, core, timers, btn, onboard, fade, fx, screen, audio,
                 env, hPress, hShoot, hAcc, hSeq, buttonsRead>>

\* Faulty variant: the to channel is left at full brightness.
FadeEndToFull ==
  /\ pc = "fadeEndTo"
  /\ AnalogWrite(fadeToPin, MAX_BRIGHTNESS)
  /\ pc' = retPc
  /\ retPc' = "none"
  /\ fadeFromPin' = BLUE_LED_PIN
  /\ fadeToPin' = BLUE_LED_PIN
  /\ fadeStep' = 0
  /\ UNCHANGED <<core, timers, btn, onboard, fx, screen, audio, env, hPress,
                 hShoot, hAcc, hSeq, buttonsRead>>

FadeEndTo ==
  /\ pc = "fadeEndTo"
  /\ AnalogWrite(fadeToPin, DIM_BRIGHTNESS)
  /\ pc' = retPc
  /\ retPc' = "none"
  /\ fadeFromPin' = BLUE_LED_PIN
  /\ fadeToPin' = BLUE_LED_PIN
  /\ fadeStep' = 0
  /\ UNCHANGED <<core, timers, btn, onboard, fx, screen, audio, env, hPress,
                 hShoot, hAcc, hSeq, buttonsRead>>


\* ------------------------------------------------------------ shootPortal
ShootCheck ==
  /\ pc = "shootCheck"
  /\ pc' = IF gateOpen /\ FallingEdge(shootPressed, lastShootState) /\ ~isShooting
             THEN "shootPortal" ELSE "storeStates"
  /\ UNCHANGED <<retPc, core, timers, btn, leds, onboard, fade, fx, screen,
                 audio, env, hPress, hShoot, hAcc, hSeq, buttonsRead>>

\* totalPortalsFired++ on a 16-bit int.  At INT_MAX the increment overflows,
\* which is undefined: a wrapping build gives INT_MIN, a build that assumes
\* no overflow may leave the value; the two ends stand for the outcomes.
IntOverflow == {INT_MIN, INT_MAX}
\* Faulty variant: the shot is counted twice.
IncrementTwice(n) == {n + 2}
\* Faulty variant: the increment is lost.
IncrementNone(n) == {n}
Increment(n) == IF n < INT_MAX THEN {n + 1} ELSE IntOverflow

\* Faulty variant: the two firing tracks exchanged.
SoundTrackSwapped(m) == IF m = BLUE_MODE THEN SOUND_RED_PORTAL ELSE SOUND_BLUE_PORTAL
SoundTrack(m) == IF m = BLUE_MODE THEN SOUND_BLUE_PORTAL ELSE SOUND_RED_PORTAL

ShootPortal ==
  /\ pc = "shootPortal"
  /\ isShooting' = TRUE
  /\ totalPortalsFired' \in Increment(totalPortalsFired)
  /\ activePin' = ModePin(currentMode)
  /\ PlayAudio(SoundTrack(currentMode), TRUE, <<>>, <<>>)
  /\ pulse' = 0
  /\ brightness' = DIM_BRIGHTNESS
  /\ pc' = "pulseUp"
  /\ shootLedWritten' = FALSE
  /\ modeAtShoot' = currentMode
  /\ firedAtShoot' = totalPortalsFired
  /\ didShoot' = TRUE
  /\ prevToggleMode' = "none"
  /\ sampEvents' = Bump("shoot")
  /\ scen' = Record("S")
  /\ acceptGap' = sinceButtonPress
  /\ UNCHANGED <<retPc, currentMode, audioEnabled, timers, btn, duty,
                 ledWritten, onboard, fade, screen, env, pressNew, pressBorn,
                 sampKind, sampBorn, didToggle, modeAtToggle, buttonsRead,
                 hSeq>>

\* Faulty variant: the effect is abandoned when the shoot button is down.
PulseUpAbortable ==
  /\ pc = "pulseUp"
  /\ AnalogWrite(activePin, brightness)
  /\ Delay(PULSE_DELAY)
  /\ IF level["shoot"] = LOW
       THEN /\ brightness' = DIM_BRIGHTNESS
            /\ pc' = "shootClear"
       ELSE IF brightness + BRIGHTNESS_STEP <= MAX_BRIGHTNESS
              THEN /\ brightness' = brightness + BRIGHTNESS_STEP
                   /\ pc' = "pulseUp"
              ELSE /\ brightness' = MAX_BRIGHTNESS
                   /\ pc' = "pulseDown"
  /\ UNCHANGED <<retPc, core, btn, onboard, fade, activePin, pulse, screen,
                 audio, env, hPress, hShoot, hAcc, hSeq, buttonsRead>>

\* performShootingEffect(): one analogWrite and delay of the upward ramp.
PulseUp ==
  /\ pc = "pulseUp"
  /\ AnalogWrite(activePin, brightness)
  /\ Delay(PULSE_DELAY)
  /\ IF brightness + BRIGHTNESS_STEP <= MAX_BRIGHTNESS
       THEN /\ brightness' = brightness + BRIGHTNESS_STEP
            /\ pc' = "pulseUp"
       ELSE /\ brightness' = MAX_BRIGHTNESS
            /\ pc' = "pulseDown"
  /\ UNCHANGED <<retPc, core, btn, onboard, fade, activePin, pulse, screen,
                 audio, env, hPress, hShoot, hAcc, hSeq, buttonsRead>>

\* Faulty variant: one repetition too many.
PulseDownOneMore ==
  /\ pc = "pulseDown"
  /\ AnalogWrite(activePin, brightness)
  /\ Delay(PULSE_DELAY)
  /\ IF brightness - BRIGHTNESS_STEP >= DIM_BRIGHTNESS
       THEN /\ brightness' = brightness - BRIGHTNESS_STEP
            /\ pc' = "pulseDown"
            /\ UNCHANGED pulse
       ELSE /\ pulse' = pulse + 1
            /\ brightness' = DIM_BRIGHTNESS
            /\ pc' = IF pulse' <= PULSE_COUNT THEN "pulseUp" ELSE "flash"
  /\ UNCHANGED <<retPc, core, btn, onboard, fade, activePin, screen, audio,
                 env, hPress, hShoot, hAcc, hSeq, buttonsRead>>

\* Faulty variant: the repetitions are not counted.
PulseDownNoCount ==
  /\ pc = "pulseDown"
  /\ AnalogWrite(activePin, brightness)
  /\ Delay(PULSE_DELAY)
  /\ IF brightness - BRIGHTNESS_STEP >= DIM_BRIGHTNESS
       THEN /\ brightness' = brightness - BRIGHTNESS_STEP
            /\ pc' = "pulseDown"
       ELSE /\ brightness' = DIM_BRIGHTNESS
            /\ pc' = "pulseUp"
  /\ UNCHANGED <<retPc, core, btn, onboard, fade, activePin, pulse, screen,
                 audio, env, hPress, hShoot, hAcc, hSeq, buttonsRead>>

\* performShootingEffect(): one analogWrite and delay of the downward ramp.
PulseDown ==
  /\ pc = "pulseDown"
  /\ AnalogWrite(activePin, brightness)
  /\ Delay(PULSE_DELAY)
  /\ IF brightness - BRIGHTNESS_STEP >= DIM_BRIGHTNESS
       THEN /\ brightness' = brightness - BRIGHTNESS_STEP
            /\ pc' = "pulseDown"
            /\ UNCHANGED pulse
       ELSE /\ pulse' = pulse + 1
            /\ brightness' = DIM_BRIGHTNESS
            /\ pc' = IF pulse' < PULSE_COUNT THEN "pulseUp" ELSE "flash"
  /\ UNCHANGED <<retPc, core, btn, onboard, fade, activePin, screen, audio,
                 env, hPress, hShoot, hAcc, hSeq, buttonsRead>>

Flash ==
  /\ pc = "flash"
  /\ AnalogWrite(activePin, MAX_BRIGHTNESS)
  /\ Delay(100)
  /\ pc' = "autoSwitchMode"
  /\ UNCHANGED <<retPc, core, btn, onboard, fade, fx, screen, audio, env,
                 hPress, hShoot, hAcc, hSeq, buttonsRead>>

\* Faulty variant: the status screen drawn in place of the auto-switch message.
AutoSwitchScreenStatus(m) == StatusScreen(m, totalPortalsFired, audioEnabled)
AutoSwitchScreen(m) == Message("autoSwitch", m)

AutoSwitchMode ==
  /\ pc = "autoSwitchMode"
  /\ currentMode' = ToggleMode(currentMode)
  /\ EnterMode(currentMode', 1500)
  /\ screen' = AutoSwitchScreen(currentMode')
  /\ CallFade(ModePin(currentMode), ModePin(currentMode'), "shootClear")
  /\ activePin' = BLUE_LED_PIN
  /\ pulse' = 0
  /\ brightness' = 0
  /\ UNCHANGED <<isShooting, audioEnabled, totalPortalsFired, btn, leds,
                 audio, env, hPress, hShoot, hAcc, hSeq, buttonsRead>>

\* Faulty variant: isShooting is left set.
ShootClearMissing ==
  /\ pc = "shootClear"
  /\ pc' = "shootRefresh"
  /\ shotsCompleted' = Min(shotsCompleted + 1, INT_MAX + 1)
  /\ actionsOdd' = ~actionsOdd
  /\ UNCHANGED <<retPc, core, timers, btn, leds, onboard, fade, fx, screen,
                 audio, env, hPress, hShoot, hAcc, missed, buttonsRead>>

ShootClear ==
  /\ pc = "shootClear"
  /\ isShooting' = FALSE
  /\ pc' = "shootRefresh"
  /\ shotsCompleted' = Min(shotsCompleted + 1, INT_MAX + 1)
  /\ actionsOdd' = ~actionsOdd
  /\ UNCHANGED <<retPc, currentMode, audioEnabled, totalPortalsFired, timers,
                 btn, leds, onboard, fade, fx, screen, audio, env, hPress,
                 hShoot, hAcc, missed, buttonsRead>>

ShootRefresh ==
  /\ pc = "shootRefresh"
  /\ screen' = updateMainDisplay(isShooting, screen, currentMode,
                                 totalPortalsFired, audioEnabled)
  /\ sinceButtonPress' = 0
  /\ pc' = "storeStates"
  /\ UNCHANGED <<retPc, core, sinceBlink, sinceOLEDUpdate, btn, leds, onboard,
                 fade, fx, audio, env, hPress, hShoot, hAcc, hSeq, buttonsRead>>

\* ------------------------------------------------------- rest of the loop
\* Faulty variant: the stored level is never LOW.
StoredStateStuck(pressed) == HIGH
StoredState(pressed) == IF pressed THEN LOW ELSE HIGH

\* Faulty variant: the levels are stored only when the debounce test passed.
StoreStatesGated ==
  /\ pc = "storeStates"
  /\ lastToggleState' = IF gateOpen THEN StoredState(togglePressed)
                                    ELSE lastToggleState
  /\ lastShootState' = IF gateOpen THEN StoredState(shootPressed)
                                   ELSE lastShootState
  /\ togglePressed' = FALSE
  /\ shootPressed' = FALSE
  /\ gateOpen' = FALSE
  /\ pc' = "updateOnboardLED"
  /\ missed' = [b \in Buttons |-> IF missed[b] = "poll" THEN "no" ELSE missed[b]]
  /\ UNCHANGED <<retPc, core, timers, leds, onboard, fade, fx, screen, audio,
                 env, hPress, hShoot, hAcc, shotsCompleted, actionsOdd,
                 buttonsRead>>

StoreStates ==
  /\ pc = "storeStates"
  /\ lastToggleState' = StoredState(togglePressed)
  /\ lastShootState' = StoredState(shootPressed)
  /\ togglePressed' = FALSE
  /\ shootPressed' = FALSE
  /\ gateOpen' = FALSE
  /\ pc' = "updateOnboardLED"
  /\ missed' = [b \in Buttons |-> IF missed[b] = "poll" THEN "no" ELSE missed[b]]
  /\ UNCHANGED <<retPc, core, timers, leds, onboard, fade, fx, screen, audio,
                 env, hPress, hShoot, hAcc, shotsCompleted, actionsOdd, buttonsRead>>

\* Faulty variant: the steady level goes to the blue channel's pin.
UpdateOnboardLEDWrongPin ==
  /\ pc = "updateOnboardLED"
  /\ IF currentMode = BLUE_MODE
       THEN /\ duty' = [duty EXCEPT ![BLUE_LED_PIN] = MAX_BRIGHTNESS]
            /\ UNCHANGED <<onboard, sinceBlink>>
       ELSE /\ UNCHANGED duty
            /\ IF sinceBlink >= BLINK_INTERVAL
                 THEN /\ onboardLEDState' = ~onboardLEDState
                      /\ onboardPin' = onboardLEDState'
                      /\ sinceBlink' = 0
                 ELSE UNCHANGED <<onboard, sinceBlink>>
  /\ pc' = "updateDisplayPeriodically"
  /\ UNCHANGED <<retPc, core, sinceButtonPress, sinceOLEDUpdate, btn,
                 ledWritten, shootLedWritten, fade, fx, screen, audio, env,
                 hPress, hShoot, hAcc, hSeq, buttonsRead>>

UpdateOnboardLED ==
  /\ pc = "updateOnboardLED"
  /\ IF currentMode = BLUE_MODE
       THEN /\ onboardPin' = HIGH
            /\ UNCHANGED <<onboardLEDState, sinceBlink>>
       ELSE IF sinceBlink >= BLINK_INTERVAL
              THEN /\ onboardLEDState' = ~onboardLEDState
                   /\ onboardPin' = onboardLEDState'
                   /\ sinceBlink' = 0
              ELSE UNCHANGED <<onboard, sinceBlink>>
  /\ pc' = "updateDisplayPeriodically"
  /\ UNCHANGED <<retPc, core, sinceButtonPress, sinceOLEDUpdate, btn, leds,
                 fade, fx, screen, audio, env, hPress, hShoot, hAcc, hSeq,
                 buttonsRead>>

UpdateDisplayPeriodically ==
  /\ pc = "updateDisplayPeriodically"
  /\ IF sinceOLEDUpdate >= OLED_UPDATE_INTERVAL
       THEN /\ screen' = updateMainDisplay(isShooting, screen, currentMode,
                                           totalPortalsFired, audioEnabled)
            /\ sinceOLEDUpdate' = 0
       ELSE UNCHANGED <<screen, sinceOLEDUpdate>>
  /\ pc' = "loopDelay"
  /\ UNCHANGED <<retPc, core, sinceButtonPress, sinceBlink, btn, leds, onboard,
                 fade, fx, audio, env, hPress, hShoot, hAcc, hSeq, buttonsRead>>

LoopDelay ==
  /\ pc = "loopDelay"
  /\ Delay(LOOP_DELAY)
  /\ pc' = "handleButtons"
  /\ UNCHANGED <<retPc, core, btn, leds, onboard, fade, fx, screen, audio,
                 env, hPress, hShoot, hAcc, hSeq, buttonsRead>>

\* ------------------------------------------------------------ environment
\* The user presses the shoot button only while the counter is in the
\* window the model explores.
CanFire ==
  \/ totalPortalsFired >= 0 /\ totalPortalsFired < MaxFired
  \/ totalPortalsFired >= INT_MAX - 1

\* Time passes only in delay() and in the final for(;;): the lines change
\* level at the positions reached through a delay.
TimePasses ==
  pc \in {"halted", "runStartupSequence", "setIdleMode", "fadeFrom",
          "fadeEndFrom", "pulseUp", "pulseDown", "flash", "autoSwitchMode",
          "handleButtons"}

\* Inside fadeTransition or the shoot sequence (pulses, flash, auto-switch).
InSequence ==
  pc \in {"fadeFrom", "fadeTo", "fadeEndFrom", "fadeEndTo", "pulseUp",
          "pulseDown", "flash", "autoSwitchMode"}

Press(b) ==
  /\ TimePasses
  /\ level[b] = HIGH
  /\ b = "shoot" => CanFire
  /\ level' = [level EXCEPT ![b] = LOW]
  /\ pressNew' = [pressNew EXCEPT ![b] = TRUE]
  /\ pressBorn' = [pressBorn EXCEPT ![b] = isShooting]
  /\ missed' = [missed EXCEPT ![b] = "no"]
  /\ UNCHANGED <<ctl, core, timers, btn, leds, onboard, fade, fx, screen,
                 audio, displayOk, audioOk, sampKind, sampEvents, sampBorn,
                 hShoot, hAcc, shotsCompleted, actionsOdd, buttonsRead>>

Release(b) ==
  /\ TimePasses
  /\ level[b] = LOW
  /\ level' = [level EXCEPT ![b] = HIGH]
  /\ pressNew' = [pressNew EXCEPT ![b] = FALSE]
  /\ pressBorn' = [pressBorn EXCEPT ![b] = FALSE]
  /\ missed' = [missed EXCEPT ![b] =
                  IF pressNew[b] /\ InSequence THEN "seq" ELSE @]
  /\ UNCHANGED <<ctl, core, timers, btn, leds, onboard, fade, fx, screen,
                 audio, displayOk, audioOk, sampKind, sampEvents, sampBorn,
                 hShoot, hAcc, shotsCompleted, actionsOdd, buttonsRead>>

PressToggle == Press("toggle")
PressShoot == Press("shoot")
ReleaseToggle == Release("toggle")
ReleaseShoot == Release("shoot")

\* ---------------------------------------------------------- specification
Next ==
  \/ SetupDisplay
  \/ SetupAudio
  \/ RunStartupSequence
  \/ SetIdleDim
  \/ SetIdleOff
  \/ SetupRefresh
  \/ HandleButtonsRead
  \/ TogglePortalMode
  \/ ToggleReturn
  \/ FadeFrom
  \/ FadeTo
  \/ FadeEndFrom
  \/ FadeEndTo
  \/ ShootCheck
  \/ ShootPortal
  \/ PulseUp
  \/ PulseDown
  \/ Flash
  \/ AutoSwitchMode
  \/ ShootClear
  \/ ShootRefresh
  \/ StoreStates
  \/ UpdateOnboardLED
  \/ UpdateDisplayPeriodically
  \/ LoopDelay
  \/ PressToggle
  \/ PressShoot
  \/ ReleaseToggle
  \/ ReleaseShoot

Spec == Init /\ [][Next]_vars

\* The polling state the program is in after n shots (n even and positive),
\* no toggle and both buttons released: the mode is back to BLUE and the
\* last cue was the red one.  a tells whether the audio player initialised.
IdleAfterShots(n, a) ==
  /\ pc = "handleButtons"
  /\ retPc = "none"
  /\ currentMode = BLUE_MODE
  /\ isShooting = FALSE
  /\ audioEnabled = a
  /\ totalPortalsFired = n
  /\ sinceButtonPress = ButtonCap
  /\ sinceBlink = BlinkCap
  /\ sinceOLEDUpdate = LOOP_DELAY
  /\ lastToggleState = HIGH
  /\ lastShootState = HIGH
  /\ togglePressed = FALSE
  /\ shootPressed = FALSE
  /\ gateOpen = FALSE
  /\ duty = [p \in LedPins |-> IF p = BLUE_LED_PIN THEN DIM_BRIGHTNESS ELSE 0]
  /\ onboardLEDState = TRUE
  /\ onboardPin = HIGH
  /\ fadeFromPin = BLUE_LED_PIN
  /\ fadeToPin = BLUE_LED_PIN
  /\ fadeStep = 0
  /\ activePin = BLUE_LED_PIN
  /\ pulse = 0
  /\ brightness = 0
  /\ screen = StatusScreen(BLUE_MODE, n, a)
  /\ audioOut = IF a THEN SOUND_RED_PORTAL ELSE 0
  /\ level = [b \in Buttons |-> HIGH]
  /\ displayOk = TRUE
  /\ audioOk = a
  /\ pressNew = [b \in Buttons |-> FALSE]
  /\ pressBorn = [b \in Buttons |-> FALSE]
  /\ sampKind = [b \in Buttons |-> "none"]
  /\ sampEvents = [b \in Buttons |-> 0]
  /\ sampBorn = [b \in Buttons |-> FALSE]
  /\ modeAtShoot = RED_MODE
  /\ firedAtShoot = n - 1
  /\ didShoot = FALSE
  /\ didToggle = FALSE
  /\ modeAtToggle = BLUE_MODE
  /\ prevToggleMode = "none"
  /\ cueCalls = <<SOUND_RED_PORTAL>>
  /\ cuePlays = IF a THEN <<SOUND_RED_PORTAL>> ELSE <<>>
  /\ shootLedWritten = TRUE
  /\ scen = <<"off">>
  /\ acceptGap = ButtonCap
  /\ buttonsRead = TRUE
  /\ ledWritten = TRUE
  /\ playRequested = a
  /\ shotsCompleted = n
  /\ missed = [b \in Buttons |-> "no"]
  /\ actionsOdd = FALSE

\* The sketch one shot short of the largest int, reached by shots alone.
InitNearMax == \E a \in BOOLEAN : IdleAfterShots(INT_MAX - 1, a)

NextLoop ==
  \/ HandleButtonsRead
  \/ TogglePortalMode
  \/ ToggleReturn
  \/ FadeFrom
  \/ FadeTo
  \/ FadeEndFrom
  \/ FadeEndTo
  \/ ShootCheck
  \/ ShootPortal
  \/ PulseUp
  \/ PulseDown
  \/ Flash
  \/ AutoSwitchMode
  \/ ShootClear
  \/ ShootRefresh
  \/ StoreStates
  \/ UpdateOnboardLED
  \/ UpdateDisplayPeriodically
  \/ LoopDelay
  \/ PressToggle
  \/ PressShoot
  \/ ReleaseToggle
  \/ ReleaseShoot

SpecNearMax == InitNearMax /\ [][NextLoop]_vars

\* A step of the sketch itself.  The processor always executes the next
\* statement and every delay() returns, so the thread of control is never
\* held back forever; nothing is assumed of the buttons.
ProgramStep ==
  \/ SetupDisplay
  \/ SetupAudio
  \/ RunStartupSequence
  \/ SetIdleDim
  \/ SetIdleOff
  \/ SetupRefresh
  \/ HandleButtonsRead
  \/ TogglePortalMode
  \/ ToggleReturn
  \/ FadeFrom
  \/ FadeTo
  \/ FadeEndFrom
  \/ FadeEndTo
  \/ ShootCheck
  \/ ShootPortal
  \/ PulseUp
  \/ PulseDown
  \/ Flash
  \/ AutoSwitchMode
  \/ ShootClear
  \/ ShootRefresh
  \/ StoreStates
  \/ UpdateOnboardLED
  \/ UpdateDisplayPeriodically
  \/ LoopDelay

SpecLive == Init /\ [][Next]_vars /\ WF_vars(ProgramStep)

\* fadeTransition(fromPin, toPin) on its own: entered in either direction
\* with any pair of duty values on the two channels, returning to "fadeDone".
FadeDuties ==
  {d \in 0..MAX_BRIGHTNESS : d % DutyStride = 0} \cup
    {DIM_BRIGHTNESS, MAX_BRIGHTNESS}

InitFade ==
  /\ pc = "fadeFrom"
  /\ retPc = "fadeDone"
  /\ fadeFromPin \in LedPins
  /\ fadeToPin = OtherPin(fadeFromPin)
  /\ fadeStep = 0
  /\ duty \in [LedPins -> FadeDuties]
  /\ currentMode = (IF fadeToPin = BLUE_LED_PIN THEN BLUE_MODE ELSE RED_MODE)
  /\ isShooting = FALSE
  /\ audioEnabled = TRUE
  /\ totalPortalsFired = 0
  /\ sinceButtonPress = ButtonCap
  /\ sinceBlink = BlinkCap
  /\ sinceOLEDUpdate = OLEDCap
  /\ lastToggleState = HIGH
  /\ lastShootState = HIGH
  /\ togglePressed = FALSE
  /\ shootPressed = FALSE
  /\ gateOpen = FALSE
  /\ onboardLEDState = TRUE
  /\ onboardPin = HIGH
  /\ activePin = BLUE_LED_PIN
  /\ pulse = 0
  /\ brightness = 0
  /\ screen = NoScreen
  /\ audioOut = 0
  /\ level = [b \in Buttons |-> HIGH]
  /\ displayOk = TRUE
  /\ audioOk = TRUE
  /\ pressNew = [b \in Buttons |-> FALSE]
  /\ pressBorn = [b \in Buttons |-> FALSE]
  /\ sampKind = [b \in Buttons |-> "none"]
  /\ sampEvents = [b \in Buttons |-> 0]
  /\ sampBorn = [b \in Buttons |-> FALSE]
  /\ modeAtShoot = BLUE_MODE
  /\ firedAtShoot = 0
  /\ didShoot = FALSE
  /\ didToggle = FALSE
  /\ modeAtToggle = BLUE_MODE
  /\ prevToggleMode = "none"
  /\ cueCalls = <<>>
  /\ cuePlays = <<>>
  /\ shootLedWritten = FALSE
  /\ scen = <<"off">>
  /\ acceptGap = ButtonCap
  /\ buttonsRead = TRUE
  /\ ledWritten = TRUE
  /\ playRequested = FALSE
  /\ shotsCompleted = 0
  /\ missed = [b \in Buttons |-> "no"]
  /\ actionsOdd = FALSE

NextFade ==
  \/ FadeFrom
  \/ FadeTo
  \/ FadeEndFrom
  \/ FadeEndTo

SpecFade == InitFade /\ [][NextFade]_vars

\* The starting state of SpecNearMax with the counter at 2 is a state of Spec.
IdleAfterTwoShots == \E a \in BOOLEAN : IdleAfterShots(2, a)

TypeOK ==
  /\ currentMode \in PortalMode
  /\ isShooting \in BOOLEAN
  /\ totalPortalsFired \in INT_MIN..INT_MAX
  /\ \A p \in LedPins : duty[p] \in Int
  /\ sinceButtonPress \in 0..ButtonCap


\* ----------------------------------------------------------------- claims
\* Positions of the polling loop outside togglePortalMode and shootPortal.
AtPoll ==
  pc \in {"storeStates", "updateOnboardLED", "updateDisplayPeriodically",
          "loopDelay", "handleButtons"}

InFade == pc \in {"fadeFrom", "fadeTo", "fadeEndFrom", "fadeEndTo"}

Opposite(m) == IF m = BLUE_MODE THEN RED_MODE ELSE BLUE_MODE

\* C1: every toggle flips the mode: when togglePortalMode has run, the mode
\* differs from the one the toggle started in and from the one the previous
\* toggle left (no shoot in between), and the first toggle after startup
\* leaves RED, so successive toggles give RED, BLUE, RED, ...
C1_TogglesAlternate ==
  pc = "toggleReturn" =>
    /\ currentMode = Opposite(modeAtToggle)
    /\ currentMode # prevToggleMode
    /\ scen = <<"T">> => currentMode = RED_MODE

\* A second toggle in a row has run and left BLUE after RED.
C1_Witness ==
  pc = "toggleReturn" /\ prevToggleMode = RED_MODE /\ currentMode = BLUE_MODE

\* C2 as amended: when a shoot has run to its return the mode is the
\* opposite of the mode it began in, and the counter is one more than it
\* was, provided it was below the largest int when the shoot began.
C2_ShootEffect ==
  (pc = "storeStates" /\ didShoot) =>
    /\ currentMode = Opposite(modeAtShoot)
    /\ firedAtShoot < INT_MAX => totalPortalsFired = firedAtShoot + 1

\* A shoot from RED that took the counter from INT_MAX - 1 to INT_MAX.
C2_Witness ==
  /\ pc = "storeStates"
  /\ didShoot
  /\ modeAtShoot = RED_MODE
  /\ firedAtShoot = INT_MAX - 1
  /\ totalPortalsFired = INT_MAX

\* C2 as stated: at any counter value a shoot adds exactly one and flips the
\* mode.
C2_Original ==
  (pc = "storeStates" /\ didShoot) =>
    /\ currentMode = Opposite(modeAtShoot)
    /\ totalPortalsFired = firedAtShoot + 1

\* C3: a press of the shoot button made while a shoot sequence runs is never
\* accepted, whether it is released before the end or held past it: while it
\* lasts the counter stays one above its value at the start of that sequence
\* and, as long as no toggle has run since, the mode stays flipped once.
C3_SecondShootIsNoOp ==
  /\ sampBorn["shoot"] =>
       /\ sampEvents["shoot"] = 0
       /\ totalPortalsFired = firedAtShoot + 1
       /\ (AtPoll /\ prevToggleMode = "none") =>
            currentMode = Opposite(modeAtShoot)
  /\ (pressBorn["shoot"] /\ ~isShooting) =>
       /\ totalPortalsFired = firedAtShoot + 1
       /\ (AtPoll /\ prevToggleMode = "none") =>
            currentMode = Opposite(modeAtShoot)

\* A press made during the sequence is still held at a poll whose debounce
\* window has elapsed.
C3_Witness ==
  pc = "shootCheck" /\ sampBorn["shoot"] /\ shootPressed /\ gateOpen

\* C4 as stated: an action is accepted only when more than the debounce
\* interval has elapsed since the last accepted action.
C4_OneActionPerWindow == acceptGap > DEBOUNCE_DELAY

\* C5 as amended: a physical press is detected at most once; at the end of
\* every poll it has been detected exactly once if the poll that first
\* sampled it found the debounce interval elapsed and the stored level high,
\* and not at all otherwise.
C5_EdgeDetection ==
  \A b \in Buttons :
    /\ sampEvents[b] <= 1
    /\ pc = "storeStates" =>
         /\ sampKind[b] = "hit" => sampEvents[b] = 1
         /\ sampKind[b] = "miss" => sampEvents[b] = 0

\* One press was detected and the other, first sampled inside the window or
\* with the stored level low, was not.
C5_Witness ==
  /\ pc = "storeStates"
  /\ sampKind["shoot"] = "hit"
  /\ sampKind["toggle"] = "miss"

\* C5 as stated: every press the poller samples is detected exactly once.
C5_Original ==
  pc = "storeStates" =>
    \A b \in Buttons : sampKind[b] # "none" => sampEvents[b] = 1

\* C6: once the audio player has failed to initialise (audioPlayer.begin has
\* run and returned false), audioEnabled is false from then on and no play
\* request ever reaches the player.
C6_AudioOffline ==
  (~audioOk /\ pc \notin {"setup", "audioInit", "halted"}) =>
    /\ ~audioEnabled
    /\ ~playRequested
    /\ audioOut = 0
    /\ cuePlays = <<>>

\* Without audio a toggle and a shoot have run.
C6_Witness ==
  ~audioOk /\ pc = "storeStates" /\ scen = <<"T", "S">> /\ Len(cueCalls) = 1

\* C7: if the display fails to initialise the program never leaves setup:
\* no button is read, no LED channel written, no audio played, and mode and
\* counter stay BLUE and 0.
C7_DisplayFailureHalts ==
  ~displayOk =>
    /\ pc \in {"setup", "halted"}
    /\ ~buttonsRead
    /\ ~ledWritten
    /\ ~playRequested
    /\ currentMode = BLUE_MODE
    /\ totalPortalsFired = 0
    /\ \A p \in LedPins : duty[p] = 0
    /\ screen = NoScreen

\* The program has halted and both buttons are held down.
C7_Witness ==
  ~displayOk /\ pc = "halted" /\ level["toggle"] = LOW /\ level["shoot"] = LOW

\* C8: the two channels are never both at dim-idle brightness, and outside
\* fadeTransition a channel at dim-idle brightness has the other one at 0.
C8_LedInvariant ==
  /\ ~(duty[BLUE_LED_PIN] = DIM_BRIGHTNESS /\ duty[RED_LED_PIN] = DIM_BRIGHTNESS)
  /\ ~InFade =>
       \A p \in LedPins : duty[p] = DIM_BRIGHTNESS => duty[OtherPin(p)] = 0

\* The fade after a shoot has brought the fired channel down to dim-idle and
\* is about to raise the other one.
C8_Witness ==
  /\ isShooting
  /\ pc = "fadeTo"
  /\ duty[fadeFromPin] = DIM_BRIGHTNESS
  /\ duty[fadeToPin] = 0

\* C9: during a shoot exactly one firing cue has been issued, that of the
\* colour current when the shoot began (BLUE 2, RED 3), before any LED write
\* of the sequence and before the auto-switch; and toggle, shoot, toggle from
\* startup gives RED,0 then BLUE,1 with the red cue, then RED,1.
C9_FiringCue ==
  /\ isShooting =>
       /\ cueCalls = <<IF modeAtShoot = BLUE_MODE THEN SOUND_BLUE_PORTAL
                                                  ELSE SOUND_RED_PORTAL>>
       /\ cuePlays = IF audioEnabled THEN cueCalls ELSE <<>>
       /\ pc \in {"pulseUp", "pulseDown", "flash", "autoSwitchMode"} =>
            currentMode = modeAtShoot
  /\ AtPoll =>
       /\ scen = <<"T">> => currentMode = RED_MODE /\ totalPortalsFired = 0
       /\ scen = <<"T", "S">> =>
            /\ currentMode = BLUE_MODE
            /\ totalPortalsFired = 1
            /\ cueCalls = <<SOUND_RED_PORTAL>>
       /\ scen = <<"T", "S", "T">> =>
            currentMode = RED_MODE /\ totalPortalsFired = 1

\* The scenario has run to its end with the red cue played.
C9_Witness ==
  /\ pc = "storeStates"
  /\ scen = <<"T", "S", "T">>
  /\ cuePlays = <<SOUND_RED_PORTAL>>
  /\ audioOut = SOUND_MODE_SWITCH

\* C10: the status screen is never rendered while isShooting is true.
C10_NoStatusRenderWhileShooting ==
  [][(screen' # screen /\ screen'.kind = "status") => ~isShooting]_vars

\* A shoot has returned and the status screen shows its result.
C10_Witness ==
  /\ pc = "storeStates"
  /\ didShoot
  /\ screen = StatusScreen(currentMode, totalPortalsFired, audioEnabled)
  /\ totalPortalsFired = 1

\* C11: every shoot sequence that starts comes to its end whatever the
\* buttons do meanwhile: isShooting is false again and the LEDs are in the
\* idle state of the colour opposite to the one the shoot began in.
C11_ShootTerminates ==
  isShooting ~>
    /\ ~isShooting
    /\ pc = "shootRefresh"
    /\ currentMode = Opposite(modeAtShoot)
    /\ duty[ModePin(currentMode)] = DIM_BRIGHTNESS
    /\ duty[OtherPin(ModePin(currentMode))] = 0

\* A shoot begun in RED has ended in BLUE idle.
C11_Witness ==
  /\ pc = "shootRefresh"
  /\ ~isShooting
  /\ modeAtShoot = RED_MODE
  /\ currentMode = BLUE_MODE
  /\ duty[BLUE_LED_PIN] = DIM_BRIGHTNESS
  /\ duty[RED_LED_PIN] = 0

\* C12: totalPortalsFired is 0 at startup; at every poll point it equals the
\* number of shoot sequences completed since startup (as long as that
\* number fits the 16-bit int); below the largest int it never decreases;
\* and only the increment at the start of shootPortal changes it, so a
\* toggle, a fade and the rest of the loop leave it as it is.
C12_CounterCountsShots ==
  /\ [](pc = "setup" => totalPortalsFired = 0)
  /\ []((AtPoll /\ shotsCompleted <= INT_MAX) =>
          totalPortalsFired = shotsCompleted)
  /\ [][/\ totalPortalsFired < INT_MAX =>
             totalPortalsFired' >= totalPortalsFired
        /\ totalPortalsFired' # totalPortalsFired => pc = "shootPortal"]_vars

\* Two shots and a toggle have completed and the counter reads 2.
C12_Witness ==
  /\ AtPoll
  /\ shotsCompleted = 2
  /\ totalPortalsFired = 2
  /\ prevToggleMode # "none"

\* The analogWrite steps fadeTransition still has to make: two for each
\* remaining value of step, and the two final writes.
FadeStepsLeft ==
  LET rounds == (DIM_BRIGHTNESS - fadeStep) \div FADE_STEP + 1 IN
  CASE pc = "fadeFrom" -> 2 * rounds + 2
    [] pc = "fadeTo" -> 2 * rounds + 1
    [] pc = "fadeEndFrom" -> 2
    [] pc = "fadeEndTo" -> 1
    [] OTHER -> 0

\* C13: fadeTransition ends after a fixed number of steps whatever the two
\* duty values were when it was entered: each of its steps has a successor
\* and takes the number of steps left down by one, from the same number at
\* every entry, and its last step leaves the from channel at 0 and the to
\* channel at dim-idle brightness.
C13_FadeEnds ==
  /\ [](InFade => ENABLED NextFade)
  /\ []((pc = "fadeFrom" /\ fadeStep = 0) =>
          FadeStepsLeft = 2 * (DIM_BRIGHTNESS \div FADE_STEP) + 4)
  /\ [][(InFade /\ pc' # pc) =>
          /\ FadeStepsLeft' = FadeStepsLeft - 1
          /\ ~InFade' =>
               /\ duty'[fadeFromPin] = 0
               /\ duty'[fadeToPin] = DIM_BRIGHTNESS]_vars

\* A fade from the blue to the red channel has returned.
C13_Witness ==
  /\ pc = "fadeDone"
  /\ currentMode = RED_MODE
  /\ duty[BLUE_LED_PIN] = 0
  /\ duty[RED_LED_PIN] = DIM_BRIGHTNESS

InPulse == pc \in {"pulseUp", "pulseDown"}
Abs(x) == IF x < 0 THEN -x ELSE x
RampSteps == (MAX_BRIGHTNESS - DIM_BRIGHTNESS) \div BRIGHTNESS_STEP
\* The values of the two for loops of performShootingEffect.
UpRamp == {DIM_BRIGHTNESS + k * BRIGHTNESS_STEP : k \in 0..RampSteps}
DownRamp == {MAX_BRIGHTNESS - k * BRIGHTNESS_STEP : k \in 0..RampSteps}
UpTop == DIM_BRIGHTNESS + RampSteps * BRIGHTNESS_STEP
DownBottom == MAX_BRIGHTNESS - RampSteps * BRIGHTNESS_STEP

\* C14 as amended: the effect runs 8 repetitions; in each the active channel
\* is written 30, 50, ..., 250 and then 255, 235, ..., 35; two consecutive
\* writes differ by 20 inside a ramp and by 5 at the turns (250 to 255, and
\* 35 to the 30 of the next repetition); after the last repetition, which
\* ends at 35, the channel is set to 255 and held.
C14_PulseRamp ==
  /\ [](pc = "pulseUp" => brightness \in UpRamp /\ pulse < PULSE_COUNT)
  /\ [](pc = "pulseDown" => brightness \in DownRamp /\ pulse < PULSE_COUNT)
  /\ [](pc = "flash" => pulse = PULSE_COUNT /\ duty[activePin] = DownBottom)
  /\ []((pc = "autoSwitchMode" /\ isShooting) =>
          duty[activePin] = MAX_BRIGHTNESS)
  /\ [][(InPulse /\ brightness' # brightness) =>
          /\ duty'[activePin] = brightness
          /\ ~shootLedWritten => duty'[activePin] = DIM_BRIGHTNESS
          /\ shootLedWritten =>
               \/ Abs(duty'[activePin] - duty[activePin]) = BRIGHTNESS_STEP
               \/ duty[activePin] = UpTop /\ duty'[activePin] = MAX_BRIGHTNESS
               \/ duty[activePin] = DownBottom /\ duty'[activePin] = DIM_BRIGHTNESS
         ]_vars

\* The last repetition has ended with the channel at 35.
C14_Witness ==
  pc = "flash" /\ pulse = PULSE_COUNT /\ duty[activePin] = DownBottom

\* C14 as stated: 8 repetitions from 30 up to 255 and back down to 30, every
\* two consecutive writes differing by exactly 20, then held at 255.
C14_Original ==
  /\ [](pc = "flash" => pulse = PULSE_COUNT /\ duty[activePin] = DIM_BRIGHTNESS)
  /\ []((pc = "autoSwitchMode" /\ isShooting) =>
          duty[activePin] = MAX_BRIGHTNESS)
  /\ [][(InPulse /\ brightness' # brightness /\ shootLedWritten) =>
          Abs(duty'[activePin] - duty[activePin]) = BRIGHTNESS_STEP]_vars

\* Positions of loop() and handleButtons() outside the two handlers.
InLoop ==
  pc \in {"handleButtons", "shootCheck", "storeStates", "updateOnboardLED",
          "updateDisplayPeriodically", "loopDelay"}

\* C15: only the step of togglePortalMode and the step of autoSwitchMode
\* change currentMode; no step of the loop outside the two handlers (the
\* button reads, the onboard-LED update, the periodic refresh, the delay)
\* changes currentMode, totalPortalsFired or a duty value, and a play request
\* changes no duty value.
C15_Frame ==
  [][/\ currentMode' # currentMode =>
          pc \in {"togglePortalMode", "autoSwitchMode"}
     /\ InLoop => UNCHANGED <<currentMode, totalPortalsFired, duty>>
     /\ audioOut' # audioOut => UNCHANGED duty]_vars

\* An iteration without an accepted press has blinked the onboard LED and
\* refreshed the display, in RED with one portal fired.
C15_Witness ==
  /\ pc = "loopDelay"
  /\ ~didShoot
  /\ ~didToggle
  /\ sinceBlink = 0
  /\ sinceOLEDUpdate = 0
  /\ currentMode = RED_MODE
  /\ totalPortalsFired = 1
  /\ duty[RED_LED_PIN] = DIM_BRIGHTNESS

\* The LEDs idle in mode m: its channel at dim-idle, the other one off.
IdleLeds(m) ==
  /\ duty[ModePin(m)] = DIM_BRIGHTNESS
  /\ duty[OtherPin(ModePin(m))] = 0

\* C16: whatever the button lines do while a shoot sequence or a toggle's
\* fade runs, the sequence ends in the one state fixed by the state it began
\* in: the opposite mode, the counter one higher after a shoot and untouched
\* after a toggle, the LEDs idle in the new mode.  A press begun and
\* released inside the sequence, once the next poll has read the lines,
\* has caused no call of its handler.
C16_NoInterruption ==
  /\ pc = "shootClear" =>
       /\ currentMode = Opposite(modeAtShoot)
       /\ totalPortalsFired = firedAtShoot + 1
       /\ IdleLeds(currentMode)
  /\ pc = "toggleReturn" =>
       /\ currentMode = Opposite(modeAtToggle)
       /\ totalPortalsFired = shotsCompleted
       /\ IdleLeds(currentMode)
  /\ missed["toggle"] = "poll" => ~didToggle /\ pc # "togglePortalMode"
  /\ missed["shoot"] = "poll" => ~didShoot /\ pc # "shootPortal"

\* After a shoot sequence during which both buttons were pressed and
\* released, the next poll has run without calling a handler.
C16_Witness ==
  /\ pc = "storeStates"
  /\ missed["toggle"] = "poll"
  /\ missed["shoot"] = "poll"
  /\ shotsCompleted = 1
  /\ prevToggleMode = "none"
  /\ ~didShoot
  /\ ~didToggle

\* C18: the machine over (mode, shooting flag) is total and deterministic.
\* Both components always have a defined value and, unless setup has
\* halted, the program has a next step.  A toggle event has the one
\* successor (opposite mode, not shooting); a shoot event has the one
\* successor (same mode, shooting), which the auto-switch takes to (opposite
\* mode, shooting) and the return to (opposite mode, not shooting); no other
\* step changes either component.
C18_DeterministicTotal ==
  /\ [](currentMode \in PortalMode /\ isShooting \in BOOLEAN)
  /\ [](pc # "halted" => ENABLED ProgramStep)
  /\ [][/\ (pc = "togglePortalMode" /\ pc' # pc) =>
             ~isShooting /\ ~isShooting' /\ currentMode' = Opposite(currentMode)
        /\ (pc = "shootPortal" /\ pc' # pc) =>
             ~isShooting /\ isShooting' /\ currentMode' = currentMode
        /\ (pc = "autoSwitchMode" /\ pc' # pc) =>
             isShooting /\ isShooting' /\ currentMode' = Opposite(currentMode)
        /\ (pc = "shootClear" /\ pc' # pc) =>
             isShooting /\ ~isShooting' /\ currentMode' = currentMode
        /\ <<currentMode, isShooting>>' # <<currentMode, isShooting>> =>
             pc \in {"togglePortalMode", "shootPortal", "autoSwitchMode",
                     "shootClear"}]_vars

\* A second shot, fired from (RED, not shooting), has passed through
\* (RED, shooting) and (BLUE, shooting) and returned to (BLUE, not shooting).
C18_Witness ==
  /\ pc = "shootRefresh"
  /\ ~isShooting
  /\ currentMode = BLUE_MODE
  /\ modeAtShoot = RED_MODE
  /\ shotsCompleted = 2
  /\ scen = <<"off">>

\* C19: every duty value on either PWM channel, hence every value written by
\* setIdleMode, fadeTransition and performShootingEffect, is in 0..255.
C19_DutyRange ==
  \A p \in LedPins : duty[p] \in 0..MAX_BRIGHTNESS

\* The first shoot is in its closing fade: setIdleMode, the pulse effect and
\* the fade loop have all written, the last two values being 0 and 30.
C19_Witness ==
  /\ pc = "fadeEndFrom"
  /\ isShooting
  /\ shotsCompleted = 0
  /\ duty[fadeFromPin] = 0
  /\ duty[fadeToPin] = DIM_BRIGHTNESS

\* C20: isShooting is false at every position of loop() and handleButtons()
\* outside shootPortal, in particular at the entry of handleButtons and at
\* the periodic display check, and also throughout togglePortalMode; so
\* where the poller tests "shootPressed && lastShootState == HIGH &&
\* !isShooting" the last conjunct is true and the first two decide.
C20_NeverShootingAtPoll ==
  /\ InLoop => ~isShooting
  /\ (pc \in {"togglePortalMode", "toggleReturn"} \/ retPc = "toggleReturn") =>
       ~isShooting
  /\ pc = "shootCheck" =>
       ((gateOpen /\ FallingEdge(shootPressed, lastShootState) /\ ~isShooting)
          <=> (gateOpen /\ FallingEdge(shootPressed, lastShootState)))

\* After one completed shoot the poller is about to accept another one.
C20_Witness ==
  /\ pc = "shootCheck"
  /\ gateOpen
  /\ shootPressed
  /\ lastShootState = HIGH
  /\ shotsCompleted = 1

\* Both falling edges were sampled by the same poll with the debounce
\* interval elapsed.
BothEdges ==
  /\ gateOpen
  /\ FallingEdge(togglePressed, lastToggleState)
  /\ FallingEdge(shootPressed, lastShootState)

\* C21: a poll that samples both falling edges with the debounce interval
\* elapsed runs the toggle first and the shoot second in the same call of
\* handleButtons: the shot starts in the colour the toggle selected and
\* plays its cue, the mode ends as it was before the poll, and the counter
\* has grown by one.
C21_ToggleThenShoot ==
  /\ (BothEdges /\ pc = "togglePortalMode") => ~didToggle /\ ~didShoot
  /\ (BothEdges /\ pc = "shootCheck") => didToggle /\ ~didShoot
  /\ (BothEdges /\ pc = "storeStates") =>
       /\ didToggle
       /\ didShoot
       /\ modeAtShoot = Opposite(modeAtToggle)
       /\ cueCalls = <<SoundTrack(Opposite(modeAtToggle))>>
       /\ currentMode = modeAtToggle
       /\ totalPortalsFired = firedAtShoot + 1
       /\ shotsCompleted = firedAtShoot + 1

\* From BLUE both edges were taken by one poll: the red cue, BLUE again, one
\* portal fired.
C21_Witness ==
  /\ BothEdges
  /\ pc = "storeStates"
  /\ modeAtToggle = BLUE_MODE
  /\ modeAtShoot = RED_MODE
  /\ currentMode = BLUE_MODE
  /\ totalPortalsFired = 1

\* C22: an edge first sampled inside the debounce window is dropped for
\* good.  A press whose first sample did not pass the tests never causes a
\* call of its handler, however long it is held; the stored levels follow
\* the samples at the end of every poll, gate open or closed; and the first
\* poll after a toggle or a shoot finds the window open, so a press made
\* during the sequence and still held then is such a press.
C22_GatedEdgeDiscarded ==
  /\ [](\A b \in Buttons : sampKind[b] = "miss" => sampEvents[b] = 0)
  /\ [][(pc = "storeStates" /\ pc' # pc) =>
          /\ lastToggleState' = (IF togglePressed THEN LOW ELSE HIGH)
          /\ lastShootState' = (IF shootPressed THEN LOW ELSE HIGH)]_vars
  /\ [][(pc = "handleButtons" /\ pc' # pc /\ (didToggle \/ didShoot)) =>
          /\ ~gateOpen'
          /\ pc' = "shootCheck"
          /\ \A b \in Buttons :
               (level[b] = LOW /\ pressNew[b]) => sampKind'[b] = "miss"]_vars

\* The shoot button, first sampled inside the window, is still held at a
\* poll whose window has elapsed, and no shoot is accepted.
C22_Witness ==
  /\ pc = "storeStates"
  /\ sampKind["shoot"] = "miss"
  /\ shootPressed
  /\ gateOpen
  /\ lastShootState = LOW
  /\ ~didShoot

\* C23: at every position of the polling loop outside the handlers the
\* mode is BLUE exactly when the number of accepted toggles plus completed
\* shoots is even, and RED exactly when it is odd.
C23_Parity ==
  InLoop =>
    /\ currentMode = BLUE_MODE <=> ~actionsOdd
    /\ currentMode = RED_MODE <=> actionsOdd

\* Two shoots and an odd number of toggles have been accepted: RED.
C23_Witness ==
  /\ pc = "handleButtons"
  /\ shotsCompleted = 2
  /\ actionsOdd
  /\ currentMode = RED_MODE
  /\ scen = <<"off">>

\* C24: at every position of the polling loop, which is entered only after
\* startup, the channel of currentMode is at dim-idle brightness and the
\* other channel at 0, whatever toggles and shoots came before.
C24_LedsAgreeWithMode ==
  InLoop => IdleLeds(currentMode)

\* After a shoot and then a toggle the loop polls in RED: red 30, blue 0.
C24_Witness ==
  /\ pc = "handleButtons"
  /\ shotsCompleted = 1
  /\ prevToggleMode = RED_MODE
  /\ currentMode = RED_MODE
  /\ duty[RED_LED_PIN] = DIM_BRIGHTNESS
  /\ duty[BLUE_LED_PIN] = 0

\* C25: whenever control is in the polling loop (after startup, after a
\* toggle, after a shoot) the screen is the status screen and shows the
\* current mode and the current counter: no start-up, mode-switch or
\* auto-switch message and no stale mode or count is left on it.
C25_StatusScreenCurrent ==
  InLoop =>
    /\ screen.kind = "status"
    /\ screen.mode = currentMode
    /\ screen.fired = totalPortalsFired
    /\ screen = StatusScreen(currentMode, totalPortalsFired, audioEnabled)

\* Back in the loop after two shoots and a toggle: the screen reads RED, 2.
C25_Witness ==
  /\ pc = "handleButtons"
  /\ screen.kind = "status"
  /\ screen.mode = RED_MODE
  /\ screen.fired = 2
  /\ prevToggleMode = RED_MODE
  /\ currentMode = RED_MODE
  /\ totalPortalsFired = 2

====
